---- MODULE Spec2Model ----
(***************************************************************************)
(* Job-trigger-and-monitor protocol of databricks-workspace-tools:         *)
(*   trigger_databricks_flow  (src/trigger_flow_function.py, and the same  *)
(*                             body registered as a Unity Catalog function *)
(*                             in src/register_uc_functions.py)            *)
(*   trigger_and_monitor_job  (src/example_usage.py)                       *)
(* together with the job-execution backend the client calls.               *)
(***************************************************************************)
EXTENDS Integers, Sequences, FiniteSets, TLC

(***************************************************************************)
(* Bounds of the model.                                                    *)
(***************************************************************************)
\* Number of trigger calls made one after the other in SpecSeq.
MaxCalls == 2

\* Largest poll_interval and max_wait (seconds) given to trigger_and_monitor_job.
MaxPollInterval == 2
MaxWait == 3

\* Status queries the monitor's log keeps, and sleeps it counts: a monitor
\* that queries more often keeps the latest MaxQueries queries in the log.
MaxQueries == 4

(***************************************************************************)
(* Values.                                                                 *)
(***************************************************************************)
\* Python's None where a string is expected (Optional[str]).
NoneV == "<None>"

\* Python's None where a decoded JSON value is expected.
NoneP == [t |-> "NoneType", v |-> <<>>]

\* The six payloads examined from the last to the first.
KindOrderReversed ==
    << "dbt_commands", "sql_params", "pipeline_params",
       "jar_params", "python_params", "notebook_params" >>

\* The six parameter payloads, in the order the function examines them.
KindOrder ==
    << "notebook_params", "python_params", "jar_params",
       "pipeline_params", "sql_params", "dbt_commands" >>

Kinds == { KindOrder[i] : i \in 1..Len(KindOrder) }

\* isinstance(..., dict) is required of these, isinstance(..., list) of the rest.
ExpectedType(k) ==
    IF k \in {"notebook_params", "pipeline_params", "sql_params"}
    THEN "dict" ELSE "list"

\* The text of the ValueError raised for a wrong-shaped payload.
ShapeMessage(k) ==
    IF ExpectedType(k) = "dict"
    THEN <<k, " must be a JSON object (dictionary)">>
    ELSE <<k, " must be a JSON array">>

\* A test for None only ("is not None").
TruthyNotNone(s) == s # NoneV

\* Python truthiness of an Optional[str]: None and "" are falsy.
Truthy(s) == s # NoneV /\ s # ""

\* str.strip() on the job identifiers of the model.
Strip(s) == IF s = "  " THEN "" ELSE s

\* int(s) succeeds (int() itself ignores surrounding whitespace).
IsNumeric(s) == Strip(s) \in {"7", "8"}

\* int(s) where it succeeds.
IntOf(s) == IF Strip(s) = "7" THEN 7 ELSE 8

\* json.loads on the payload texts of the model: the decoded value, or the
\* JSONDecodeError's message.
json_loads(text) ==
    CASE text = "{}"  -> [ok |-> TRUE, val |-> [t |-> "dict", v |-> <<>>]]
      [] text = "[]"  -> [ok |-> TRUE, val |-> [t |-> "list", v |-> <<>>]]
      [] text = "{\"env\": \"dev\"}"
                      -> [ok |-> TRUE, val |-> [t |-> "dict", v |-> <<"env", "dev">>]]
      [] text = "7"   -> [ok |-> TRUE, val |-> [t |-> "int", v |-> <<7>>]]
      [] OTHER        -> [ok |-> FALSE,
                          err |-> "Expecting property name enclosed in double quotes"]

\* json.dumps of the notebook_params dict given to trigger_and_monitor_job.
json_dumps(d) ==
    IF d = <<"env", "dev">> THEN "{\"env\": \"dev\"}" ELSE "{}"

(***************************************************************************)
(* Inputs.                                                                 *)
(***************************************************************************)
\* Job identifiers: absent, empty, whitespace-only, non-numeric, numeric.
JobIds == {NoneV, "", "  ", "abc", "7"}

\* Payload texts: absent, empty, a JSON object, a JSON array, malformed JSON.
PayloadTexts == {NoneV, "", "{}", "[]", "{bad"}

\* Idempotency tokens: absent, empty, a caller-chosen token.
Tokens == {NoneV, "", "t1"}

\* Inputs of the calls made in sequence.
SeqJobIds == {"7", "8"}
SeqTokens == {NoneV, "t1", "t2"}

\* Exceptions the SDK raises from a failed remote call.
RemoteErrors ==
    { [type |-> "ResourceDoesNotExist", msg |-> <<"Job does not exist.">>],
      [type |-> "ConnectionError", msg |-> <<"Connection aborted.">>] }

\* Exceptions raised when WorkspaceClient() cannot resolve its configuration
\* or authenticate.
ClientErrors ==
    { [type |-> "ValueError",
       msg |-> <<"default auth: cannot configure default credentials">>],
      [type |-> "ConnectionError", msg |-> <<"Connection aborted.">>] }

\* Lifecycle states the backend reports for a run that was just started, and
\* the case of the SDK field being unset.
RunDetails ==
    { [has_state |-> FALSE, life_cycle_state |-> NoneV,     state_message |-> NoneV,
       start_time |-> <<>>],
      [has_state |-> TRUE,  life_cycle_state |-> NoneV,     state_message |-> NoneV,
       start_time |-> <<>>],
      [has_state |-> TRUE,  life_cycle_state |-> "PENDING", state_message |-> "",
       start_time |-> <<>>],
      [has_state |-> TRUE,  life_cycle_state |-> "RUNNING", state_message |-> "In run",
       start_time |-> <<1700000000>>] }

VARIABLES
    \* arguments of the trigger call in progress
    job_id, params, idempotency_token,
    \* position in trigger_databricks_flow: "idle", "validate", "client",
    \* "parse", "run_now", "get_run", "done"
    pc,
    \* parsed_*_params
    parsed,
    \* run_response of w.jobs.run_now
    run_response,
    \* what the call gave its caller: nothing yet, an exception, a JSON result
    outcome,
    \* remote calls issued by the call in progress, in order
    calls,
    \* number of runs the backend created for the call in progress
    started,
    \* whether the token of the call in progress had never been sent to the
    \* backend when the call began
    fresh,
    \* completed calls, oldest first
    history,
    \* backend: the runs created, oldest first
    runs,
    \* backend: tokens inside the dedup window, with their runs
    dedup,
    \* tokens sent to the backend so far
    usedTokens,
    \* tokens whose dedup window has ended, in the order the windows ended
    expired,
    \* position in trigger_and_monitor_job: "idle" (not running), "trigger",
    \* "loop", "query", "sleep", "done"
    wpc,
    \* its arguments notebook_params (a dict), poll_interval, max_wait
    nb_params, poll_interval, max_wait,
    \* its locals run_id and elapsed
    run_id, elapsed,
    \* the status queries it issued, oldest first, and the sleeps it completed
    polls, sleeps,
    \* what it gave its caller
    wf_outcome,
    \* the command line of local_test.py: its position ("idle", "main", "dry",
    \* "call", "printed", "exception") and its --dry-run flag
    cpc, dry_run,
    \* RunJobTool: the job_id set on the instance, the job_id argument of _run,
    \* the position in _run ("idle", "client", "run_now", "wait", "done"), the
    \* remote calls _run issued, the run it started, and what it gave its caller
    tool_job_id, tool_arg, tpc, tool_calls, tool_run, tool_outcome,
    \* two callers at once: which caller's invocation the variables above hold
    \* (1 or 2), and the arguments and locals of the other caller's invocation
    current, suspended

vars ==
    << job_id, params, idempotency_token, pc, parsed, run_response, outcome,
       calls, started, fresh, history, runs, dedup, usedTokens, expired,
       wpc, nb_params, poll_interval, max_wait, run_id, elapsed, polls, sleeps,
       wf_outcome, cpc, dry_run,
       tool_job_id, tool_arg, tpc, tool_calls, tool_run, tool_outcome,
       current, suspended >>

\* The programs that call trigger_databricks_flow from outside the workflow.
cliVars == << cpc, dry_run >>
toolVars == << tool_job_id, tool_arg, tpc, tool_calls, tool_run, tool_outcome >>
concVars == << current, suspended >>
hostVars == << cliVars, toolVars, concVars >>

wfVars ==
    << wpc, nb_params, poll_interval, max_wait, run_id, elapsed, polls, sleeps,
       wf_outcome >>

callVars == << job_id, params, idempotency_token >>
backendVars == << runs, dedup, usedTokens, expired >>

NoParams == [k \in Kinds |-> NoneV]
NoParsed == [k \in Kinds |-> NoneP]
NoResponse == [run_id |-> 0, number_in_job |-> 0]
NoOutcome == [kind |-> "none"]
Raised(exc) == [kind |-> "raised", exc |-> exc]
Returned(result) == [kind |-> "returned", result |-> result]

(***************************************************************************)
(* Backend: the job-execution service behind run_now and get_run.          *)
(***************************************************************************)
\* Run identifier of the next run: never one handed out before.
FreshRunId == 100 + Len(runs)

\* Sequential number of a new run within its job.
NextNumberInJob(job) ==
    1 + Cardinality({ i \in 1..Len(runs) : runs[i].job = job })

\* The backend treats an unset or empty token as no token.
HasToken(token) == token # NoneV /\ token # ""

\* The run kept for a token inside the dedup window, if any.
DedupRuns(token) == { d \in dedup : d.token = token }

\* The runs the backend knows.
RunIds == { runs[i].run_id : i \in 1..Len(runs) }

\* The run record of a run identifier.
RunOf(id) == CHOOSE r \in { runs[i] : i \in 1..Len(runs) } : r.run_id = id

\* What the backend answers to a start-run request it accepts: the run kept
\* for the request's token when there is one, a new run otherwise.
StartRunResponse(req) ==
    IF HasToken(req.idempotency_token) /\ DedupRuns(req.idempotency_token) # {}
    THEN LET r == RunOf((CHOOSE d \in DedupRuns(req.idempotency_token) : TRUE).run_id)
         IN  [run_id |-> r.run_id, number_in_job |-> r.number_in_job, created |-> FALSE]
    ELSE [run_id |-> FreshRunId, number_in_job |-> NextNumberInJob(req.job_id),
          created |-> TRUE]

(***************************************************************************)
(* trigger_databricks_flow.                                                *)
(***************************************************************************)
\* Mutant: the check without the strip().
JobIdMissingNoStrip(j) == ~Truthy(j)

\* if not job_id or not job_id.strip()
JobIdMissing(j) == ~Truthy(j) \/ ~Truthy(Strip(j))

JobIdRequired ==
    [type |-> "ValueError", msg |-> <<"job_id is required and cannot be empty">>]

\* int(job_id) on a non-numeric string.
IntError(j) ==
    [type |-> "ValueError", msg |-> <<"invalid literal for int() with base 10: ", j>>]

\* run_details.state.life_cycle_state.value on an unset life_cycle_state.
AttributeError ==
    [type |-> "AttributeError", msg |-> <<"'NoneType' object has no attribute 'value'">>]

\* The payloads are examined one after the other; the first one that does not
\* decode or has the wrong type ends the examination with a ValueError.
RECURSIVE ParseFrom(_, _, _)
ParseFrom(i, p, acc) ==
    IF i > Len(KindOrder)
    THEN [ok |-> TRUE, parsed |-> acc]
    ELSE LET k == KindOrder[i] IN
         IF ~Truthy(p[k])
         THEN ParseFrom(i + 1, p, acc)
         ELSE LET d == json_loads(p[k]) IN
              IF ~d.ok
              THEN [ok |-> FALSE,
                    exc |-> [type |-> "ValueError",
                             msg |-> <<"Invalid JSON in parameters: ", d.err>>]]
              ELSE IF d.val.t # ExpectedType(k)
              THEN [ok |-> FALSE,
                    exc |-> [type |-> "ValueError", msg |-> ShapeMessage(k)]]
              ELSE ParseFrom(i + 1, p, [acc EXCEPT ![k] = d.val])

ParseAll(p) == ParseFrom(1, p, NoParsed)

\* Mutant: an absent payload is sent as an empty placeholder of its type.
RequestParamsPlaceholders(pp) ==
    [k \in Kinds |-> IF pp[k] = NoneP
                     THEN [t |-> ExpectedType(k), v |-> <<>>]
                     ELSE pp[k]]

\* The keyword arguments of w.jobs.run_now. The SDK leaves an argument that is
\* None out of the request body.
RequestParams(pp) == pp

\* Mutant: a token is made up when the caller gave none.
RequestTokenMinted(t) == IF t = NoneV THEN "minted" ELSE t

\* Mutant: the token is not forwarded.
RequestTokenDropped(t) == NoneV

\* idempotency_token=idempotency_token
RequestToken(t) == t

RunNowRequest(j, pp, t) ==
    [op |-> "run_now", job_id |-> IntOf(j), params |-> RequestParams(pp),
     idempotency_token |-> RequestToken(t)]

\* Mutant: the run is looked up by its number within the job.
GetRunArgNumberInJob(resp) == resp.number_in_job

\* run_id = run_response.run_id; w.jobs.get_run(run_id=run_id)
GetRunArg(resp) == resp.run_id

\* Mutant: the result reports the number within the job as the run_id.
ResultRunIdNumberInJob(resp) == resp.number_in_job

\* The "run_id" of the result.
ResultRunId(resp) == resp.run_id

\* An error result that carries a run_id as well.
ErrorResultWithRunId(j, e) ==
    [success |-> FALSE, run_id |-> 0, job_id |-> j, error |-> e.msg,
     error_type |-> e.type,
     message |-> <<"Failed to trigger job ", j, ": ", e.msg>>]

ErrorResult(j, e) ==
    [success |-> FALSE, job_id |-> j, error |-> e.msg, error_type |-> e.type,
     message |-> <<"Failed to trigger job ", j, ": ", e.msg>>]

SuccessResult(j, resp, d) ==
    [success |-> TRUE,
     run_id |-> ResultRunId(resp),
     number_in_job |-> resp.number_in_job,
     job_id |-> j,
     state |-> [life_cycle_state |-> d.life_cycle_state,
                state_message |-> d.state_message],
     run_page_url |-> <<"/jobs/runs/", GetRunArg(resp)>>,
     start_time |-> d.start_time,
     message |-> <<"Successfully triggered job ", j, ". Run ID: ", ResultRunId(resp)>>]

\* How many dedup windows of a token have ended.
Era(t) == Cardinality({ i \in 1..Len(expired) : expired[i] = t })

\* The record kept of a call when it ends.
Entry(out, cs, st) ==
    [job_id |-> job_id, params |-> params, token |-> idempotency_token,
     fresh |-> fresh, era |-> Era(idempotency_token), started |-> st,
     calls |-> cs, outcome |-> out]

\* The call ends: it raises or returns.
Finish(out, cs, st) ==
    /\ pc' = "done"
    /\ outcome' = out
    /\ calls' = cs
    /\ started' = st
    /\ history' = Append(history, Entry(out, cs, st))

\* A call begins.
Begin(j, p, t) ==
    /\ job_id' = j
    /\ params' = p
    /\ idempotency_token' = t
    /\ pc' = "validate"
    /\ parsed' = NoParsed
    /\ run_response' = NoResponse
    /\ outcome' = NoOutcome
    /\ calls' = <<>>
    /\ started' = 0
    /\ fresh' = (~HasToken(t) \/ t \notin usedTokens)

\* Lines 104-106.
ValidateJobId ==
    /\ pc = "validate"
    /\ IF JobIdMissing(job_id)
       THEN /\ Finish(Raised(JobIdRequired), calls, started)
            /\ UNCHANGED << callVars, parsed, run_response, fresh, backendVars >>
       ELSE /\ pc' = "client"
            /\ UNCHANGED << callVars, parsed, run_response, outcome, calls, started,
                            fresh, history, backendVars >>
    /\ UNCHANGED wfVars
    /\ UNCHANGED hostVars

\* Line 110: w = WorkspaceClient(), outside every try block.
CreateClient ==
    /\ pc = "client"
    /\ \/ /\ pc' = "parse"
          /\ UNCHANGED << outcome, calls, started, history >>
       \/ \E e \in ClientErrors : Finish(Raised(e), calls, started)
    /\ UNCHANGED << callVars, parsed, run_response, fresh, backendVars, wfVars >>
    /\ UNCHANGED hostVars

\* Lines 112-152.
ParseParams ==
    /\ pc = "parse"
    /\ LET r == ParseAll(params) IN
       IF r.ok
       THEN /\ parsed' = r.parsed
            /\ pc' = "run_now"
            /\ UNCHANGED << outcome, calls, started, history >>
       ELSE /\ Finish(Raised(r.exc), calls, started)
            /\ UNCHANGED parsed
    /\ UNCHANGED << callVars, run_response, fresh, backendVars, wfVars >>
    /\ UNCHANGED hostVars

\* Lines 155-165 and 188-196: int(job_id), then the start-run call.
RunNow ==
    /\ pc = "run_now"
    /\ IF ~IsNumeric(job_id)
       THEN /\ Finish(Returned(ErrorResult(job_id, IntError(job_id))), calls, started)
            /\ UNCHANGED << run_response, runs, dedup, usedTokens >>
       ELSE LET req == RunNowRequest(job_id, parsed, idempotency_token) IN
            /\ usedTokens' = IF HasToken(req.idempotency_token)
                             THEN usedTokens \cup {req.idempotency_token}
                             ELSE usedTokens
            /\ \/ \E e \in RemoteErrors :
                     /\ Finish(Returned(ErrorResult(job_id, e)),
                               Append(calls, req @@ [ok |-> FALSE, response |-> NoResponse]),
                               started)
                     /\ UNCHANGED << run_response, runs, dedup >>
               \/ LET resp == StartRunResponse(req)
                      rr   == [run_id |-> resp.run_id,
                               number_in_job |-> resp.number_in_job]
                  IN
                  /\ run_response' = rr
                  /\ calls' = Append(calls, req @@ [ok |-> TRUE, response |-> rr])
                  /\ IF resp.created
                     THEN /\ runs' = Append(runs,
                                 [run_id |-> resp.run_id, job |-> req.job_id,
                                  number_in_job |-> resp.number_in_job,
                                  token |-> req.idempotency_token])
                          /\ dedup' = IF HasToken(req.idempotency_token)
                                      THEN dedup \cup {[token |-> req.idempotency_token,
                                                        run_id |-> resp.run_id]}
                                      ELSE dedup
                          /\ started' = started + 1
                     ELSE UNCHANGED << runs, dedup, started >>
                  /\ pc' = "get_run"
                  /\ UNCHANGED << outcome, history >>
    /\ UNCHANGED << callVars, parsed, fresh, expired, wfVars >>
    /\ UNCHANGED hostVars

\* Lines 167-196: the get-run call and the construction of the result.
GetRun ==
    /\ pc = "get_run"
    /\ LET arg == GetRunArg(run_response)
           req == [op |-> "get_run", run_id |-> arg]
       IN
       \/ \E e \in RemoteErrors :
             Finish(Returned(ErrorResult(job_id, e)),
                    Append(calls, req @@ [ok |-> FALSE]), started)
       \/ /\ arg \in RunIds
          /\ \E d \in RunDetails :
                IF d.has_state /\ d.life_cycle_state = NoneV
                THEN Finish(Returned(ErrorResult(job_id, AttributeError)),
                            Append(calls, req @@ [ok |-> TRUE]), started)
                ELSE Finish(Returned(SuccessResult(job_id, run_response, d)),
                            Append(calls, req @@ [ok |-> TRUE]), started)
    /\ UNCHANGED << callVars, parsed, run_response, fresh, backendVars, wfVars >>
    /\ UNCHANGED hostVars

(***************************************************************************)
(* trigger_and_monitor_job.                                                *)
(***************************************************************************)
\* Lifecycle states in which the loop returns the status.
TerminalStates == {"TERMINATED", "SKIPPED", "INTERNAL_ERROR"}

\* What get_job_status returns: a status with success=false, or a status with
\* the run's lifecycle state and, once the run has ended, its result state.
StatusResults ==
    { [success |-> FALSE, life_cycle_state |-> NoneV, result_state |-> NoneV] }
    \cup
    { [success |-> TRUE, life_cycle_state |-> l, result_state |-> NoneV] :
        l \in {"RUNNING", "QUEUED", "FUTURE_STATE"} }
    \cup
    { [success |-> TRUE, life_cycle_state |-> "TERMINATED", result_state |-> r] :
        r \in {"SUCCESS", "FAILED"} }
    \cup
    { [success |-> TRUE, life_cycle_state |-> l, result_state |-> NoneV] :
        l \in {"SKIPPED", "INTERNAL_ERROR"} }

\* The exception of a spark.sql(...) call that fails.
QueryError ==
    [type |-> "AnalysisException", msg |-> <<"get_job_status failed">>]

\* time.sleep with a negative argument.
SleepError ==
    [type |-> "ValueError", msg |-> <<"sleep length must be non-negative">>]

\* if notebook_params: a dict that is None or empty is falsy.
DictTruthy(d) == d # NoneP /\ d.v # <<>>

\* The arguments of the trigger_databricks_flow call of lines 320-328.
WorkflowParams(d) ==
    IF DictTruthy(d)
    THEN [NoParams EXCEPT !["notebook_params"] = json_dumps(d.v)]
    ELSE NoParams

\* A loop that stops one second early.
LoopContinuesOffByOne(e, mw) == e < mw - 1

\* while elapsed < max_wait
LoopContinues(e, mw) == e < mw

\* A check that takes every successful answer for a terminal one.
IsTerminalAnySuccess(st) == st.success

\* A check that knows TERMINATED only.
IsTerminalOnlyTerminated(st) ==
    st.success /\ st.life_cycle_state = "TERMINATED"

\* if life_cycle_state in ['TERMINATED', 'SKIPPED', 'INTERNAL_ERROR']
IsTerminal(st) == st.success /\ st.life_cycle_state \in TerminalStates

\* A loop that counts each sleep twice.
NextElapsedTwice(e, p) == e + 2 * p

\* elapsed += poll_interval
NextElapsed(e, p) == e + p

\* The log of the status queries issued, the latest last.
Logged(log, entry) ==
    IF Len(log) < MaxQueries THEN Append(log, entry)
    ELSE Append(Tail(log), entry)

\* The count of the sleeps taken.
Counted(n) == IF n < MaxQueries THEN n + 1 ELSE n

\* A workflow that polls for the run's number within its job.
WorkflowRunIdNumberInJob(result) == result.number_in_job

\* run_id = result_dict.get('run_id')
WorkflowRunId(result) == result.run_id

\* The workflow ends: it raises, or returns a status or None.
WfFinish(out) ==
    /\ wpc' = "done"
    /\ wf_outcome' = out

\* Lines 330-341: the trigger call has ended.
WfTriggered ==
    /\ wpc = "trigger"
    /\ pc = "done"
    /\ IF outcome.kind = "raised"
       THEN /\ WfFinish(Raised(outcome.exc))
            /\ UNCHANGED << run_id, elapsed >>
       ELSE IF ~outcome.result.success
       THEN /\ WfFinish(Returned([none |-> TRUE, why |-> "trigger failed"]))
            /\ UNCHANGED << run_id, elapsed >>
       ELSE /\ run_id' = WorkflowRunId(outcome.result)
            /\ elapsed' = 0
            /\ wpc' = "loop"
            /\ UNCHANGED wf_outcome
    /\ UNCHANGED << nb_params, poll_interval, max_wait, polls, sleeps >>
    /\ UNCHANGED << callVars, pc, parsed, run_response, outcome, calls, started,
                    fresh, history, backendVars >>
    /\ UNCHANGED hostVars

\* Lines 342 and 365-366: the loop condition, and the timeout after the loop.
WfLoop ==
    /\ wpc = "loop"
    /\ IF LoopContinues(elapsed, max_wait)
       THEN /\ wpc' = "query"
            /\ UNCHANGED wf_outcome
       ELSE WfFinish(Returned([none |-> TRUE, why |-> "timeout"]))
    /\ UNCHANGED << nb_params, poll_interval, max_wait, run_id, elapsed, polls, sleeps >>
    /\ UNCHANGED << callVars, pc, parsed, run_response, outcome, calls, started,
                    fresh, history, backendVars >>
    /\ UNCHANGED hostVars

\* Lines 343-360: one status query and the check of its result.
WfQuery ==
    /\ wpc = "query"
    /\ \/ /\ polls' = Logged(polls, [run_id |-> run_id, raised |-> TRUE])
          /\ WfFinish(Raised(QueryError))
       \/ \E st \in StatusResults :
             /\ polls' = Logged(polls, [run_id |-> run_id, raised |-> FALSE,
                                        status |-> st])
             /\ IF IsTerminal(st)
                THEN WfFinish(Returned([none |-> FALSE, status |-> st]))
                ELSE /\ wpc' = "sleep"
                     /\ UNCHANGED wf_outcome
    /\ UNCHANGED << nb_params, poll_interval, max_wait, run_id, elapsed, sleeps >>
    /\ UNCHANGED << callVars, pc, parsed, run_response, outcome, calls, started,
                    fresh, history, backendVars >>
    /\ UNCHANGED hostVars

\* Lines 362-363: time.sleep(poll_interval); elapsed += poll_interval.
WfSleep ==
    /\ wpc = "sleep"
    /\ IF poll_interval < 0
       THEN /\ WfFinish(Raised(SleepError))
            /\ UNCHANGED << sleeps, elapsed >>
       ELSE /\ sleeps' = Counted(sleeps)
            /\ elapsed' = NextElapsed(elapsed, poll_interval)
            /\ wpc' = "loop"
            /\ UNCHANGED wf_outcome
    /\ UNCHANGED << nb_params, poll_interval, max_wait, run_id, polls >>
    /\ UNCHANGED << callVars, pc, parsed, run_response, outcome, calls, started,
                    fresh, history, backendVars >>
    /\ UNCHANGED hostVars

(***************************************************************************)
(* Specifications.                                                         *)
(***************************************************************************)
\* trigger_and_monitor_job is not running.
NoWorkflow ==
    /\ wpc = "idle"
    /\ nb_params = NoneP
    /\ poll_interval = 0
    /\ max_wait = 0
    /\ run_id = 0
    /\ elapsed = 0
    /\ polls = <<>>
    /\ sleeps = 0
    /\ wf_outcome = NoOutcome

\* No program other than the caller of the function is running.
NoCli ==
    /\ cpc = "idle"
    /\ dry_run = FALSE

\* The run of a tool that has started none.
NoRun == [job |-> NoneV, state |-> NoneV]

NoTool ==
    /\ tool_job_id = ""
    /\ tool_arg = NoneV
    /\ tpc = "idle"
    /\ tool_calls = <<>>
    /\ tool_run = NoRun
    /\ tool_outcome = NoOutcome

\* The arguments and locals of an invocation of trigger_databricks_flow, and
\* of the trigger_and_monitor_job that called it (wpc = "idle" when none did).
Frame(j, p, t, c, pp, rr, out, cs, st, fr, w, nb, pi, mw, rid, el, ps, sl, wout) ==
    [ job_id |-> j, params |-> p, idempotency_token |-> t, pc |-> c,
      parsed |-> pp, run_response |-> rr, outcome |-> out, calls |-> cs,
      started |-> st, fresh |-> fr,
      wpc |-> w, nb_params |-> nb, poll_interval |-> pi, max_wait |-> mw,
      run_id |-> rid, elapsed |-> el, polls |-> ps, sleeps |-> sl,
      wf_outcome |-> wout ]

\* An invocation that has not begun.
NoFrame ==
    Frame(NoneV, NoParams, NoneV, "idle", NoParsed, NoResponse, NoOutcome,
          <<>>, 0, TRUE, "idle", NoneP, 0, 0, 0, 0, <<>>, 0, NoOutcome)

\* There is one caller only.
NoConc ==
    /\ current = 1
    /\ suspended = NoFrame

NoHost ==
    /\ NoCli
    /\ NoTool
    /\ NoConc

\* One call of trigger_databricks_flow, with any arguments, against a backend
\* that has started no run yet.
Init ==
    /\ job_id \in JobIds
    /\ params \in [Kinds -> PayloadTexts]
    /\ idempotency_token \in Tokens
    /\ pc = "validate"
    /\ parsed = NoParsed
    /\ run_response = NoResponse
    /\ outcome = NoOutcome
    /\ calls = <<>>
    /\ started = 0
    /\ fresh = TRUE
    /\ history = <<>>
    /\ runs = <<>>
    /\ dedup = {}
    /\ usedTokens = {}
    /\ expired = <<>>
    /\ NoWorkflow
    /\ NoHost

Next ==
    \/ ValidateJobId
    \/ CreateClient
    \/ ParseParams
    \/ RunNow
    \/ GetRun

Spec == Init /\ [][Next]_vars

\* The backend forgets a token: its dedup window has ended.
ExpireToken ==
    /\ pc \in {"idle", "done"}
    /\ \E d \in dedup :
          /\ dedup' = dedup \ {d}
          /\ expired' = Append(expired, d.token)
    /\ UNCHANGED << callVars, pc, parsed, run_response, outcome, calls, started,
                    fresh, history, runs, usedTokens, wfVars >>
    /\ UNCHANGED hostVars

\* A caller calls trigger_databricks_flow after the previous call has ended.
Call ==
    /\ pc \in {"idle", "done"}
    /\ Len(history) < MaxCalls
    /\ \E j \in SeqJobIds, t \in SeqTokens : Begin(j, NoParams, t)
    /\ UNCHANGED << history, backendVars, wfVars >>
    /\ UNCHANGED hostVars

InitSeq ==
    /\ job_id = NoneV
    /\ params = NoParams
    /\ idempotency_token = NoneV
    /\ pc = "idle"
    /\ parsed = NoParsed
    /\ run_response = NoResponse
    /\ outcome = NoOutcome
    /\ calls = <<>>
    /\ started = 0
    /\ fresh = TRUE
    /\ history = <<>>
    /\ runs = <<>>
    /\ dedup = {}
    /\ usedTokens = {}
    /\ expired = <<>>
    /\ NoWorkflow
    /\ NoHost

NextSeq ==
    \/ Call
    \/ ExpireToken
    \/ ValidateJobId
    \/ CreateClient
    \/ ParseParams
    \/ RunNow
    \/ GetRun

SpecSeq == InitSeq /\ [][NextSeq]_vars

\* Arguments given to trigger_and_monitor_job.
WorkflowJobIds == {"", "abc", "7"}
WorkflowDicts ==
    { NoneP, [t |-> "dict", v |-> <<>>], [t |-> "dict", v |-> <<"env", "dev">>] }

\* One call of trigger_and_monitor_job against a backend that has started no
\* run yet; it begins with its call of trigger_databricks_flow.
InitWorkflow ==
    /\ job_id \in WorkflowJobIds
    /\ nb_params \in WorkflowDicts
    /\ poll_interval \in -1..MaxPollInterval
    /\ max_wait \in -1..MaxWait
    /\ params = WorkflowParams(nb_params)
    /\ idempotency_token = NoneV
    /\ pc = "validate"
    /\ parsed = NoParsed
    /\ run_response = NoResponse
    /\ outcome = NoOutcome
    /\ calls = <<>>
    /\ started = 0
    /\ fresh = TRUE
    /\ history = <<>>
    /\ runs = <<>>
    /\ dedup = {}
    /\ usedTokens = {}
    /\ expired = <<>>
    /\ wpc = "trigger"
    /\ run_id = 0
    /\ elapsed = 0
    /\ polls = <<>>
    /\ sleeps = 0
    /\ wf_outcome = NoOutcome
    /\ NoHost

NextWorkflow ==
    \/ ValidateJobId
    \/ CreateClient
    \/ ParseParams
    \/ RunNow
    \/ GetRun
    \/ WfTriggered
    \/ WfLoop
    \/ WfQuery
    \/ WfSleep

SpecWorkflow == InitWorkflow /\ [][NextWorkflow]_vars

\* The same call run to its end: the interpreter always takes the next step of
\* the running function.
SpecWorkflowFair == SpecWorkflow /\ WF_vars(NextWorkflow)

(***************************************************************************)
(* The command line of src/local_test.py.                                  *)
(***************************************************************************)
\* A command line that does not look at its --dry-run flag.
DryRunIgnored(flag) == FALSE

\* if args.dry_run:
DryRun(flag) == flag

\* Lines 63-105: main prints its arguments; with --dry-run it returns, without
\* it calls trigger_databricks_flow with the arguments as given.
CliMain ==
    /\ cpc = "main"
    /\ IF DryRun(dry_run)
       THEN /\ cpc' = "dry"
            /\ UNCHANGED pc
       ELSE /\ cpc' = "call"
            /\ pc' = "validate"
    /\ UNCHANGED << callVars, parsed, run_response, outcome, calls, started,
                    fresh, history, backendVars, wfVars, dry_run, toolVars,
                    concVars >>

\* Lines 107-128: main prints the result, or the exception it caught.
CliReport ==
    /\ cpc = "call"
    /\ pc = "done"
    /\ cpc' = IF outcome.kind = "raised" THEN "exception" ELSE "printed"
    /\ UNCHANGED << callVars, pc, parsed, run_response, outcome, calls, started,
                    fresh, history, backendVars, wfVars, dry_run, toolVars,
                    concVars >>

\* Payload texts given on the command line.
CliPayloadTexts == {NoneV, "{}", "{bad"}

\* One run of local_test.py: --job-id is required, the other options are
\* None when they are not given.
InitCli ==
    /\ job_id \in JobIds \ {NoneV}
    /\ params \in [Kinds -> CliPayloadTexts]
    /\ idempotency_token \in Tokens
    /\ dry_run \in BOOLEAN
    /\ cpc = "main"
    /\ NoTool
    /\ NoConc
    /\ pc = "idle"
    /\ parsed = NoParsed
    /\ run_response = NoResponse
    /\ outcome = NoOutcome
    /\ calls = <<>>
    /\ started = 0
    /\ fresh = TRUE
    /\ history = <<>>
    /\ runs = <<>>
    /\ dedup = {}
    /\ usedTokens = {}
    /\ expired = <<>>
    /\ NoWorkflow

NextCli ==
    \/ CliMain
    \/ CliReport
    \/ ValidateJobId
    \/ CreateClient
    \/ ParseParams
    \/ RunNow
    \/ GetRun

SpecCli == InitCli /\ [][NextCli]_vars

(***************************************************************************)
(* RunJobTool of src/01b_agent_with_local_tool.py.                         *)
(***************************************************************************)
\* The job_id set on tool instances (the class default is ""), and the job_id
\* argument of _run (None when the caller gives none).
ToolJobIds == {"", "7", "8", "9"}
ToolArgs == {NoneV, "", "7", "8", "9"}

\* The jobs that exist in the workspace.
WorkspaceJobs == {"7", "8"}

\* Lifecycle states in which run.result() stops waiting.
FinishedStates == {"TERMINATED", "SKIPPED", "INTERNAL_ERROR"}

\* Exceptions of run.result(): the run failed, or the wait gave up.
OperationFailed ==
    [type |-> "OperationFailed", msg |-> <<"failed to reach TERMINATED or SKIPPED">>]

WaitTimeout ==
    [type |-> "TimeoutError", msg |-> <<"timed out after 0:20:00">>]

\* client.jobs.run_now(job_id=job_id): the job_id sent is the argument of _run.
ToolRunNowJobId(self_job_id, arg) == arg

ToolFinish(out) ==
    /\ tpc' = "done"
    /\ tool_outcome' = out

\* Line 90: WorkspaceClient(credentials_strategy=ModelServingUserCredentials()).
ToolClient ==
    /\ tpc = "client"
    /\ \/ /\ tpc' = "run_now"
          /\ UNCHANGED tool_outcome
       \/ \E e \in ClientErrors : ToolFinish(Raised(e))
    /\ UNCHANGED << tool_job_id, tool_arg, tool_calls, tool_run >>
    /\ UNCHANGED << callVars, pc, parsed, run_response, outcome, calls, started,
                    fresh, history, backendVars, wfVars, cliVars, concVars >>

\* Line 93: the run-now call; it starts a run of the job it names, or raises.
ToolRunNow ==
    /\ tpc = "run_now"
    /\ LET j == ToolRunNowJobId(tool_job_id, tool_arg) IN
       \/ /\ j \in WorkspaceJobs
          /\ tool_calls' = Append(tool_calls, [op |-> "run_now", job_id |-> j,
                                               ok |-> TRUE])
          /\ tool_run' = [job |-> j, state |-> "PENDING"]
          /\ tpc' = "wait"
          /\ UNCHANGED tool_outcome
       \/ \E e \in RemoteErrors :
             /\ j \notin WorkspaceJobs \/ e.type = "ConnectionError"
             /\ tool_calls' = Append(tool_calls, [op |-> "run_now", job_id |-> j,
                                                  ok |-> FALSE])
             /\ ToolFinish(Raised(e))
             /\ UNCHANGED tool_run
    /\ UNCHANGED << tool_job_id, tool_arg >>
    /\ UNCHANGED << callVars, pc, parsed, run_response, outcome, calls, started,
                    fresh, history, backendVars, wfVars, cliVars, concVars >>

\* The backend moves the run through its lifecycle.
ToolRunProgress ==
    /\ tool_run # NoRun
    /\ \/ /\ tool_run.state = "PENDING"
          /\ \E st \in {"RUNNING", "SKIPPED"} :
                tool_run' = [tool_run EXCEPT !.state = st]
       \/ /\ tool_run.state = "RUNNING"
          /\ \E st \in {"TERMINATED", "INTERNAL_ERROR"} :
                tool_run' = [tool_run EXCEPT !.state = st]
    /\ UNCHANGED << tool_job_id, tool_arg, tpc, tool_calls, tool_outcome >>
    /\ UNCHANGED << callVars, pc, parsed, run_response, outcome, calls, started,
                    fresh, history, backendVars, wfVars, cliVars, concVars >>

\* Lines 94-97: run.result() blocks until the run has finished, then _run
\* returns the run as JSON; a failed run and a wait that gives up raise.
ToolWait ==
    /\ tpc = "wait"
    /\ IF tool_run.state \in FinishedStates
       THEN IF tool_run.state = "INTERNAL_ERROR"
            THEN ToolFinish(Raised(OperationFailed))
            ELSE ToolFinish(Returned([job_id |-> tool_run.job,
                                      life_cycle_state |-> tool_run.state]))
       ELSE ToolFinish(Raised(WaitTimeout))
    /\ UNCHANGED << tool_job_id, tool_arg, tool_calls, tool_run >>
    /\ UNCHANGED << callVars, pc, parsed, run_response, outcome, calls, started,
                    fresh, history, backendVars, wfVars, cliVars, concVars >>

\* One call of _run on a tool instance.
InitTool ==
    /\ tool_job_id \in ToolJobIds
    /\ tool_arg \in ToolArgs
    /\ tpc = "client"
    /\ tool_calls = <<>>
    /\ tool_run = NoRun
    /\ tool_outcome = NoOutcome
    /\ job_id = NoneV
    /\ params = NoParams
    /\ idempotency_token = NoneV
    /\ pc = "idle"
    /\ parsed = NoParsed
    /\ run_response = NoResponse
    /\ outcome = NoOutcome
    /\ calls = <<>>
    /\ started = 0
    /\ fresh = TRUE
    /\ history = <<>>
    /\ runs = <<>>
    /\ dedup = {}
    /\ usedTokens = {}
    /\ expired = <<>>
    /\ NoWorkflow
    /\ NoCli
    /\ NoConc

NextTool ==
    \/ ToolClient
    \/ ToolRunNow
    \/ ToolRunProgress
    \/ ToolWait

SpecTool == InitTool /\ [][NextTool]_vars

(***************************************************************************)
(* Two callers at once.  Both functions keep their state in arguments and  *)
(* locals; the callers meet at the backend only.  The variables of the     *)
(* functions hold the invocation that is running; the other one waits in   *)
(* `suspended` until the scheduler switches to it.                         *)
(***************************************************************************)
\* The arguments and locals of the invocation that is running.
CurrentFrame ==
    Frame(job_id, params, idempotency_token, pc, parsed, run_response, outcome,
          calls, started, fresh, wpc, nb_params, poll_interval, max_wait,
          run_id, elapsed, polls, sleeps, wf_outcome)

\* Functions that keep run_response in a module-level variable: the invocation
\* that resumes finds the value the other one left there.
ResumedSharingResponse(saved, cur) ==
    [saved EXCEPT !.run_response = cur.run_response]

\* What an invocation finds in its arguments and locals when it resumes: what
\* it left there.
Resumed(saved, cur) == saved

\* The invocation f has returned or raised.
Finished(f) == IF f.wpc = "idle" THEN f.pc = "done" ELSE f.wpc = "done"

\* The scheduler switches to the other caller's invocation.
Yield ==
    /\ suspended # NoFrame
    /\ ~Finished(suspended)
    /\ LET f == Resumed(suspended, CurrentFrame) IN
       /\ job_id' = f.job_id
       /\ params' = f.params
       /\ idempotency_token' = f.idempotency_token
       /\ pc' = f.pc
       /\ parsed' = f.parsed
       /\ run_response' = f.run_response
       /\ outcome' = f.outcome
       /\ calls' = f.calls
       /\ started' = f.started
       /\ fresh' = f.fresh
       /\ wpc' = f.wpc
       /\ nb_params' = f.nb_params
       /\ poll_interval' = f.poll_interval
       /\ max_wait' = f.max_wait
       /\ run_id' = f.run_id
       /\ elapsed' = f.elapsed
       /\ polls' = f.polls
       /\ sleeps' = f.sleeps
       /\ wf_outcome' = f.wf_outcome
    /\ suspended' = CurrentFrame
    /\ current' = 3 - current
    /\ UNCHANGED << history, backendVars, cliVars, toolVars >>

\* The second caller's invocation: trigger_databricks_flow alone, with or
\* without a token, or trigger_and_monitor_job, for another job.
SecondInvocations ==
    { Frame("8", NoParams, t, "validate", NoParsed, NoResponse, NoOutcome,
            <<>>, 0, TRUE, "idle", NoneP, 0, 0, 0, 0, <<>>, 0, NoOutcome) :
        t \in {NoneV, "t1"} }
    \cup
    { Frame("8", NoParams, NoneV, "validate", NoParsed, NoResponse, NoOutcome,
            <<>>, 0, TRUE, "trigger", NoneP, 1, 1, 0, 0, <<>>, 0, NoOutcome) }

\* The first caller runs trigger_and_monitor_job for job 7 with a notebook
\* parameter, the second caller one of SecondInvocations, against a backend
\* that has started no run yet.
InitConc ==
    /\ job_id = "7"
    /\ nb_params = [t |-> "dict", v |-> <<"env", "dev">>]
    /\ poll_interval = 1
    /\ max_wait \in {1, 2}
    /\ params = WorkflowParams(nb_params)
    /\ idempotency_token = NoneV
    /\ pc = "validate"
    /\ parsed = NoParsed
    /\ run_response = NoResponse
    /\ outcome = NoOutcome
    /\ calls = <<>>
    /\ started = 0
    /\ fresh = TRUE
    /\ history = <<>>
    /\ runs = <<>>
    /\ dedup = {}
    /\ usedTokens = {}
    /\ expired = <<>>
    /\ wpc = "trigger"
    /\ run_id = 0
    /\ elapsed = 0
    /\ polls = <<>>
    /\ sleeps = 0
    /\ wf_outcome = NoOutcome
    /\ current = 1
    /\ suspended \in SecondInvocations
    /\ NoCli
    /\ NoTool

NextConc ==
    \/ Yield
    \/ ValidateJobId
    \/ CreateClient
    \/ ParseParams
    \/ RunNow
    \/ GetRun
    \/ WfTriggered
    \/ WfLoop
    \/ WfQuery
    \/ WfSleep

SpecConc == InitConc /\ [][NextConc]_vars

(***************************************************************************)
(* Properties.                                                             *)
(***************************************************************************)
IsSuccess(out) == out.kind = "returned" /\ out.result.success

IsFailure(out) == out.kind = "returned" /\ ~out.result.success

\* The start-run and get-run calls of a call log.
StartRunCalls(cs) == { i \in 1..Len(cs) : cs[i].op = "run_now" }

GetRunCalls(cs) == { i \in 1..Len(cs) : cs[i].op = "get_run" }

\* Job identifiers that are absent, empty or whitespace-only.
BlankJobIds == {NoneV, "", "  "}

\* The texts of the model that are a JSON object, and those that are a JSON array.
MappingTexts == {"{}", "{\"env\": \"dev\"}"}

SequenceTexts == {"[]"}

\* A payload that decodes to a sequence where a mapping is expected, or to a
\* mapping where a sequence is expected.
WrongShape(k, text) ==
    IF k \in {"notebook_params", "pipeline_params", "sql_params"}
    THEN text \in SequenceTexts
    ELSE text \in MappingTexts

\* The errors trigger raises for an invalid payload.
IsInvalidParametersError(out) ==
    /\ out.kind = "raised"
    /\ out.exc.type = "ValueError"
    /\ \/ \E k \in Kinds : out.exc.msg = ShapeMessage(k)
       \/ out.exc.msg[1] = "Invalid JSON in parameters: "

\* C1: a call with an absent, empty or whitespace-only job identifier never
\* gets past the job-id check: it issues no remote call, whatever the payloads
\* and the token are, and ends by raising the invalid-job-id error.
C1_BlankJobIdFailsWithoutRemoteCall ==
    job_id \in BlankJobIds =>
        /\ calls = <<>>
        /\ pc \in {"validate", "done"}
        /\ pc = "done" => outcome = Raised(JobIdRequired)

\* C1 happens: a whitespace-only job identifier, given with a malformed payload
\* and a token, was rejected.
C1_Witness ==
    /\ pc = "done"
    /\ job_id = "  "
    /\ params["notebook_params"] = "{bad"
    /\ idempotency_token = "t1"
    /\ outcome = Raised(JobIdRequired)

\* C2: a call with a non-empty job identifier that is not numeric ends the way
\* a call with a missing job identifier does, by raising its error (it is
\* not answered with a returned result), and issues no remote call.
C2_NonNumericJobIdRaises ==
    (pc = "done" /\ job_id \notin BlankJobIds /\ ~IsNumeric(job_id)) =>
        /\ outcome.kind = Raised(JobIdRequired).kind
        /\ calls = <<>>

\* C3: a call with a usable job identifier and a payload of the wrong shape
\* ends by raising the invalid-parameters error and issues no remote call.
C3_WrongShapeRaisesInvalidParameters ==
    (pc = "done" /\ job_id \notin BlankJobIds
       /\ \E k \in Kinds : WrongShape(k, params[k])) =>
        /\ IsInvalidParametersError(outcome)
        /\ calls = <<>>

\* C4: a failure of the client set-up, of the start-run call or of the get-run
\* call is never raised: a call that ends by raising raises a validation error.
C4_RemoteFailureIsReturned ==
    (pc = "done" /\ outcome.kind = "raised") =>
        outcome.exc \notin (ClientErrors \cup RemoteErrors)

\* C5: every get-run call is the second remote call of its trigger call,
\* follows a start-run call that succeeded, and asks for the run that call
\* returned; a call that returns Success has issued exactly these two calls,
\* and its run_id and number_in_job are those of the start-run response.
C5_SuccessIsOneStartThenOneGet ==
    /\ \A i \in GetRunCalls(calls) :
          /\ i = 2
          /\ calls[1].op = "run_now"
          /\ calls[1].ok
          /\ calls[i].run_id = calls[1].response.run_id
    /\ (pc = "done" /\ IsSuccess(outcome)) =>
          /\ Len(calls) = 2
          /\ calls[1].op = "run_now" /\ calls[1].ok
          /\ calls[2].op = "get_run" /\ calls[2].ok
          /\ outcome.result.run_id = calls[1].response.run_id
          /\ outcome.result.number_in_job = calls[1].response.number_in_job

\* C5 happens: a call returned Success after a start-run and a get-run call.
C5_Witness ==
    /\ pc = "done"
    /\ IsSuccess(outcome)
    /\ Len(calls) = 2
    /\ calls[2].run_id = outcome.result.run_id

\* C6 as stated: the start-run request holds a payload for a kind exactly when
\* the caller gave one (anything but None).
C6_PayloadInRequestIffSupplied ==
    \A i \in StartRunCalls(calls) : \A k \in Kinds :
        (calls[i].params[k] # NoneP) <=> (params[k] # NoneV)

\* C6 amended: the start-run request holds a payload for a kind exactly when
\* the caller gave a non-empty text for it; a payload given as None or as the
\* empty string is left out, and no placeholder is sent for it.
C6_PayloadInRequestIffNonEmpty ==
    \A i \in StartRunCalls(calls) : \A k \in Kinds :
        (calls[i].params[k] # NoneP) <=> (params[k] \notin {NoneV, ""})

\* C6 happens: a start-run request was sent for a call that gave one payload
\* as an empty JSON object, one as the empty string and one not at all.
C6_Witness ==
    /\ StartRunCalls(calls) # {}
    /\ params["notebook_params"] = "{}"
    /\ params["python_params"] = ""
    /\ params["jar_params"] = NoneV
    /\ calls[1].params["notebook_params"] = [t |-> "dict", v |-> <<>>]
    /\ calls[1].params["python_params"] = NoneP

\* C7: the token of every start-run request is the token the caller gave, and
\* None when the caller gave none.
C7_TokenForwardedUnchanged ==
    \A i \in StartRunCalls(calls) :
        calls[i].idempotency_token = idempotency_token

\* C7 happens: a start-run request without a token was sent for a caller that
\* gave none.
C7_Witness ==
    /\ StartRunCalls(calls) # {}
    /\ idempotency_token = NoneV
    /\ calls[1].idempotency_token = NoneV

\* C8: a call whose token is absent or was never sent before, and which
\* returns Success, has started exactly one run, and its run_id is not the
\* run_id of any earlier call's result.
C8_FreshCallStartsOneNewRun ==
    \A j \in 1..Len(history) :
        (history[j].fresh /\ IsSuccess(history[j].outcome)) =>
            /\ history[j].started = 1
            /\ \A i \in 1..(j - 1) :
                  IsSuccess(history[i].outcome) =>
                      history[i].outcome.result.run_id
                          # history[j].outcome.result.run_id

\* C8 happens: two calls with different tokens both returned Success.
C8_Witness ==
    /\ Len(history) >= 2
    /\ history[1].token = "t1" /\ IsSuccess(history[1].outcome)
    /\ history[2].token = "t2" /\ history[2].fresh
    /\ IsSuccess(history[2].outcome)

\* C9: a call that gives the token of an earlier call that returned Success,
\* before the token's dedup window has ended, starts no run, and when it
\* returns Success its run_id is the earlier call's.
C9_TokenReuseReturnsSameRun ==
    \A j \in 1..Len(history) : \A i \in 1..(j - 1) :
        ( /\ HasToken(history[j].token)
          /\ history[i].token = history[j].token
          /\ history[i].era = history[j].era
          /\ IsSuccess(history[i].outcome) ) =>
            /\ history[j].started = 0
            /\ IsSuccess(history[j].outcome) =>
                  history[j].outcome.result.run_id
                      = history[i].outcome.result.run_id

\* C9 happens: two calls with the same token both returned Success, for the
\* same run.
C9_Witness ==
    /\ Len(history) >= 2
    /\ history[1].token = "t1" /\ history[2].token = "t1"
    /\ history[1].era = history[2].era
    /\ IsSuccess(history[1].outcome) /\ IsSuccess(history[2].outcome)
    /\ history[2].started = 0

\* C10: once the trigger has succeeded, a poll_interval or max_wait that is
\* zero or negative lets the monitor issue no status query, and it ends by
\* raising (never with a timeout).
C10_NonPositivePollConfigFailsFast ==
    (run_id # 0 /\ (poll_interval <= 0 \/ max_wait <= 0)) =>
        /\ polls = <<>>
        /\ wpc # "query"
        /\ wpc = "done" => wf_outcome.kind = "raised"

(***************************************************************************)
(* Properties of trigger_and_monitor_job.                                  *)
(***************************************************************************)
\* The workflow has returned None after its loop ran out of time.
TimedOut ==
    /\ wpc = "done"
    /\ wf_outcome = Returned([none |-> TRUE, why |-> "timeout"])

\* The workflow has returned the status of a query.
ReturnedStatus ==
    /\ wpc = "done"
    /\ wf_outcome.kind = "returned"
    /\ ~wf_outcome.result.none

\* A logged status query that was answered with a terminal lifecycle state.
AnsweredTerminal(q) ==
    /\ ~q.raised
    /\ q.status.success
    /\ q.status.life_cycle_state \in {"TERMINATED", "SKIPPED", "INTERNAL_ERROR"}

\* A logged status query that failed: it raised, or its result has success=false.
QueryFailed(q) == q.raised \/ ~q.status.success

\* C11: the workflow returns its timeout only after it has issued at least one
\* status query, whatever max_wait is.
C11_TimeoutOnlyAfterAQuery ==
    TimedOut => polls # <<>>

\* C12: when the first status query is answered with a terminal lifecycle
\* state, the workflow has ended at that query: it returns that status after
\* exactly one query and no sleep.
C12_TerminalAtFirstQueryReturnsAtOnce ==
    (polls # <<>> /\ AnsweredTerminal(polls[1])) =>
        /\ Len(polls) = 1
        /\ sleeps = 0
        /\ wpc = "done"
        /\ wf_outcome = Returned([none |-> FALSE, status |-> polls[1].status])

\* C12 happens: a run that was skipped is reported at the first query.
C12_Witness ==
    /\ Len(polls) = 1
    /\ AnsweredTerminal(polls[1])
    /\ polls[1].status.life_cycle_state = "SKIPPED"
    /\ ReturnedStatus
    /\ wf_outcome.result.status.life_cycle_state = "SKIPPED"
    /\ sleeps = 0

\* The latest status query of the log.
LastQuery == polls[Len(polls)]

\* A logged status query that was answered, and not with a terminal state.
AnsweredNonTerminal(q) == ~q.raised /\ ~AnsweredTerminal(q)

\* C13: with a positive poll_interval and a positive max_wait, a workflow none
\* of whose status queries is answered with a terminal state ends by returning
\* its timeout; it has then issued at least floor(max_wait / poll_interval)
\* queries, and it never issues a query once the sleeps before it add up to
\* max_wait.
C13_NeverTerminalTimesOutAfterEnoughQueries ==
    (poll_interval > 0 /\ max_wait > 0) =>
        /\ ( /\ wpc = "done"
             /\ run_id # 0
             /\ \A i \in 1..Len(polls) : AnsweredNonTerminal(polls[i]) )
           => TimedOut
        /\ TimedOut => Len(polls) >= max_wait \div poll_interval
        /\ polls # <<>> => (Len(polls) - 1) * poll_interval < max_wait

\* C13 happens: poll_interval=2 and max_wait=3 time out after two queries.
C13_Witness ==
    /\ TimedOut
    /\ poll_interval = 2
    /\ max_wait = 3
    /\ Len(polls) = 2
    /\ \A i \in 1..Len(polls) : AnsweredNonTerminal(polls[i])
    /\ sleeps = 2

\* C14: the workflow returns a status only when the latest query was answered
\* with TERMINATED, SKIPPED or INTERNAL_ERROR, and it returns that answer;
\* after a successful answer with any other lifecycle state it does not end at
\* that query but goes on to the sleep, so that it ends only by its timeout
\* (or, for a negative poll_interval, by the error of that sleep).
C14_StatusReturnedOnlyForTerminalStates ==
    /\ ReturnedStatus =>
          /\ polls # <<>>
          /\ AnsweredTerminal(LastQuery)
          /\ wf_outcome.result.status = LastQuery.status
    /\ (polls # <<>> /\ AnsweredNonTerminal(LastQuery) /\ LastQuery.status.success) =>
          /\ ~ReturnedStatus
          /\ wpc \in {"sleep", "loop", "query", "done"}
          /\ wpc = "done" =>
                \/ TimedOut
                \/ poll_interval < 0 /\ wf_outcome = Raised(SleepError)

\* C14 happens: a lifecycle state the loop does not know is polled again, and
\* the INTERNAL_ERROR answered next is returned.
C14_Witness ==
    /\ ReturnedStatus
    /\ Len(polls) = 2
    /\ AnsweredNonTerminal(polls[1])
    /\ polls[1].status.life_cycle_state = "FUTURE_STATE"
    /\ wf_outcome.result.status.life_cycle_state = "INTERNAL_ERROR"

\* C15: a status query that fails (it raises, or its result has success=false)
\* is the last query of the workflow, which ends by raising an error.
C15_FailedQueryIsSurfaced ==
    \A i \in 1..Len(polls) :
        QueryFailed(polls[i]) =>
            /\ i = Len(polls)
            /\ wpc = "done"
            /\ wf_outcome.kind = "raised"

\* C16: a workflow that returns a status has issued k queries, of which only
\* the k-th was answered with a terminal state, and has slept k-1 times; and
\* it gives up with its timeout only when the sleeps taken add up to max_wait,
\* that is when the budget does not allow another query.
C16_TerminalAtKthQueryAfterKMinusOneSleeps ==
    /\ (ReturnedStatus /\ Len(polls) < MaxQueries) =>
          /\ sleeps = Len(polls) - 1
          /\ AnsweredTerminal(LastQuery)
          /\ wf_outcome.result.status = LastQuery.status
          /\ \A i \in 1..(Len(polls) - 1) : ~AnsweredTerminal(polls[i])
    /\ TimedOut => sleeps * poll_interval >= max_wait

\* C16 happens: RUNNING, then TERMINATED with SUCCESS, at poll_interval=1 is
\* returned after two queries and one sleep.
C16_Witness ==
    /\ ReturnedStatus
    /\ poll_interval = 1
    /\ max_wait = MaxWait
    /\ Len(polls) = 2
    /\ polls[1].status.life_cycle_state = "RUNNING"
    /\ polls[2].status.life_cycle_state = "TERMINATED"
    /\ polls[2].status.result_state = "SUCCESS"
    /\ sleeps = 1

\* C17: every workflow that has entered its monitoring loop eventually ends.
C17_MonitorEventuallyEnds ==
    (wpc = "loop") ~> (wpc = "done")

(***************************************************************************)
(* Properties of the parameter validation and of the result.               *)
(***************************************************************************)
\* The six payloads in the order of the function's signature.
DeclarationOrder ==
    << "notebook_params", "python_params", "jar_params",
       "pipeline_params", "sql_params", "dbt_commands" >>

\* The texts of the model that are not JSON.
MalformedTexts == {"{bad"}

\* The positions, in declaration order, of the payloads of p that are invalid:
\* present and malformed, or decoding to the wrong shape.
InvalidPositions(p) ==
    { i \in 1..Len(DeclarationOrder) :
        LET k == DeclarationOrder[i] IN
        p[k] \in MalformedTexts \/ WrongShape(k, p[k]) }

\* The earliest invalid payload of p.
EarliestInvalid(p) ==
    DeclarationOrder[CHOOSE i \in InvalidPositions(p) :
                        \A j \in InvalidPositions(p) : i <= j]

\* The text msg (a sequence of pieces) contains the piece x.
Mentions(msg, x) == \E i \in 1..Len(msg) : msg[i] = x

\* C18: when the validation stops at a payload that does not decode, the error
\* raised names that payload and carries the decode error.
C18_DecodeErrorNamesThePayload ==
    ( /\ pc = "done"
      /\ IsInvalidParametersError(outcome)
      /\ InvalidPositions(params) # {}
      /\ params[EarliestInvalid(params)] \in MalformedTexts )
    => /\ Mentions(outcome.exc.msg, EarliestInvalid(params))
       /\ Mentions(outcome.exc.msg,
                   "Expecting property name enclosed in double quotes")

\* C19: the validation stops at the earliest invalid payload in declaration
\* order: the invalid-parameters error raised is the one of that payload
\* (its shape error, or the decode error), whatever the later payloads are,
\* and a call with an invalid payload never gets past the validation.
C19_EarliestInvalidPayloadIsReported ==
    /\ (pc = "done" /\ IsInvalidParametersError(outcome)) =>
          /\ InvalidPositions(params) # {}
          /\ LET k == EarliestInvalid(params) IN
             IF params[k] \in MalformedTexts
             THEN outcome.exc.msg =
                    << "Invalid JSON in parameters: ",
                       "Expecting property name enclosed in double quotes" >>
             ELSE outcome.exc.msg = ShapeMessage(k)
    /\ InvalidPositions(params) # {} =>
          /\ pc \in {"validate", "client", "parse", "done"}
          /\ calls = <<>>
          /\ pc = "done" => outcome.kind = "raised"

\* C19 happens: jar_params has the wrong shape, the payloads before it are
\* valid or absent, pipeline_params after it is malformed, and the error is
\* the one of jar_params.
C19_Witness ==
    /\ pc = "done"
    /\ params["notebook_params"] = "{}"
    /\ params["python_params"] = NoneV
    /\ params["jar_params"] = "{}"
    /\ params["pipeline_params"] = "{bad"
    /\ params["sql_params"] = "[]"
    /\ outcome = Raised([type |-> "ValueError",
                         msg |-> <<"jar_params", " must be a JSON array">>])

C24_FailureMeansNoRunStarted ==
    (pc = "done" /\ IsFailure(outcome)) => started = 0

\* Payloads that are absent or the empty string.
EmptyTexts == {NoneV, ""}

\* C25: a payload given as the empty string is handled as an absent one: it is
\* not decoded, it raises no invalid-parameters error, and the start-run
\* request carries None for it; every other payload is decoded and has passed
\* its shape check before the request is made.
C25_EmptyPayloadIsAbsent ==
    /\ (pc \in {"run_now", "get_run"} \/ calls # <<>>) =>
          \A k \in Kinds :
             IF params[k] \in EmptyTexts
             THEN parsed[k] = NoneP
             ELSE /\ params[k] \notin MalformedTexts
                  /\ ~WrongShape(k, params[k])
                  /\ parsed[k] # NoneP
                  /\ parsed[k].t = IF params[k] \in MappingTexts
                                   THEN "dict" ELSE "list"
    /\ \A i \in StartRunCalls(calls) : \A k \in Kinds :
          params[k] \in EmptyTexts => calls[i].params[k] = NoneP
    /\ (pc = "done" /\ IsInvalidParametersError(outcome)) =>
          \E k \in Kinds : params[k] \notin EmptyTexts

\* C25 happens: a call with notebook_params = "" and python_params = "[]"
\* succeeds, and its request has no notebook_params and an empty list of
\* python_params.
C25_Witness ==
    /\ pc = "done"
    /\ IsSuccess(outcome)
    /\ params["notebook_params"] = ""
    /\ params["python_params"] = "[]"
    /\ params["dbt_commands"] = NoneV
    /\ calls[1].params["notebook_params"] = NoneP
    /\ calls[1].params["python_params"] = [t |-> "list", v |-> <<>>]
    /\ calls[1].params["dbt_commands"] = NoneP

\* C26: the workflow issues status queries and sleeps only after a trigger
\* that returned success=true, and every query is for the run_id of that
\* result; after a trigger that returned success=false it returns None with
\* no query and no sleep.
C26_QueriesOnlyAfterSuccessfulTrigger ==
    /\ (polls # <<>> \/ sleeps > 0 \/ wpc \in {"loop", "query", "sleep"}) =>
          /\ pc = "done"
          /\ IsSuccess(outcome)
          /\ run_id = outcome.result.run_id
          /\ \A i \in 1..Len(polls) : polls[i].run_id = outcome.result.run_id
    /\ (pc = "done" /\ IsFailure(outcome)) =>
          /\ polls = <<>>
          /\ sleeps = 0
          /\ wpc \in {"trigger", "done"}
          /\ wpc = "done" =>
                wf_outcome = Returned([none |-> TRUE, why |-> "trigger failed"])

\* C26 happens: two status queries for the run the trigger reported.
C26_Witness ==
    /\ pc = "done"
    /\ IsSuccess(outcome)
    /\ Len(polls) = 2
    /\ polls[1].run_id = outcome.result.run_id
    /\ polls[2].run_id = outcome.result.run_id
    /\ outcome.result.run_id \in RunIds

(***************************************************************************)
(* Properties of the command line.                                         *)
(***************************************************************************)
\* C22: with --dry-run the command line never calls trigger_databricks_flow
\* and no remote call is issued, whatever the job id, the payloads and the
\* token are.
C22_DryRunCallsNothing ==
    dry_run =>
        /\ pc = "idle"
        /\ cpc \in {"main", "dry"}
        /\ calls = <<>>
        /\ runs = <<>>
        /\ outcome = NoOutcome

\* C22 happens: a dry run with a numeric job id, a payload and a token has
\* returned.
C22_Witness ==
    /\ dry_run
    /\ cpc = "dry"
    /\ job_id = "7"
    /\ params["notebook_params"] = "{}"
    /\ idempotency_token = "t1"

(***************************************************************************)
(* Properties of RunJobTool.                                               *)
(***************************************************************************)
\* The job _run is to run: the override when one is given, the job_id of the
\* tool instance otherwise.
JobToRun == IF tool_arg = NoneV THEN tool_job_id ELSE tool_arg

\* C23: _run issues one run-now call, for the job_id of the tool instance when
\* it is called without an override and for the override otherwise, and it
\* returns only after that run has finished.
C23_RunsDefaultOrOverride ==
    /\ Len(tool_calls) <= 1
    /\ \A i \in 1..Len(tool_calls) : tool_calls[i].job_id = JobToRun
    /\ tool_outcome.kind = "returned" =>
          /\ Len(tool_calls) = 1
          /\ tool_run.job = JobToRun
          /\ tool_run.state \in {"TERMINATED", "SKIPPED"}

(***************************************************************************)
(* Properties of two callers at once.                                      *)
(***************************************************************************)
\* The results trigger_databricks_flow can give, running alone, for the
\* arguments of f and the remote calls of f's log with their responses.
TriggerResultAlone(f) ==
    LET r == ParseAll(f.params) IN
    IF f.calls = <<>>
    THEN \/ /\ f.job_id \in BlankJobIds
            /\ f.outcome = Raised(JobIdRequired)
         \/ /\ f.job_id \notin BlankJobIds
            /\ f.outcome.kind = "raised"
            /\ f.outcome.exc \in ClientErrors
         \/ /\ f.job_id \notin BlankJobIds
            /\ ~r.ok
            /\ f.outcome = Raised(r.exc)
         \/ /\ f.job_id \notin BlankJobIds
            /\ r.ok
            /\ ~IsNumeric(f.job_id)
            /\ f.outcome = Returned(ErrorResult(f.job_id, IntError(f.job_id)))
    ELSE /\ r.ok
         /\ f.calls[1].op = "run_now"
         /\ f.calls[1].job_id = IntOf(f.job_id)
         /\ f.calls[1].params = r.parsed
         /\ f.calls[1].idempotency_token = f.idempotency_token
         /\ IF ~f.calls[1].ok
            THEN /\ Len(f.calls) = 1
                 /\ \E e \in RemoteErrors :
                       f.outcome = Returned(ErrorResult(f.job_id, e))
            ELSE /\ Len(f.calls) = 2
                 /\ f.calls[2].op = "get_run"
                 /\ f.calls[2].run_id = f.calls[1].response.run_id
                 /\ f.started = 1 =>
                       RunOf(f.calls[1].response.run_id).job = IntOf(f.job_id)
                 /\ IF ~f.calls[2].ok
                    THEN \E e \in RemoteErrors :
                            f.outcome = Returned(ErrorResult(f.job_id, e))
                    ELSE \E d \in RunDetails :
                            f.outcome =
                              IF d.has_state /\ d.life_cycle_state = NoneV
                              THEN Returned(ErrorResult(f.job_id, AttributeError))
                              ELSE Returned(SuccessResult(f.job_id,
                                                          f.calls[1].response, d))

\* The result trigger_and_monitor_job gives, running alone, for the result of
\* its trigger call and the answers of f's status queries.
MonitorResultAlone(f) ==
    /\ f.pc = "done"
    /\ IF f.outcome.kind = "raised"
       THEN /\ f.wf_outcome = Raised(f.outcome.exc)
            /\ f.polls = <<>> /\ f.sleeps = 0
       ELSE IF ~f.outcome.result.success
       THEN /\ f.wf_outcome = Returned([none |-> TRUE, why |-> "trigger failed"])
            /\ f.polls = <<>> /\ f.sleeps = 0
       ELSE /\ f.run_id = f.outcome.result.run_id
            /\ \A i \in 1..Len(f.polls) : f.polls[i].run_id = f.run_id
            /\ f.elapsed = f.sleeps * f.poll_interval
            /\ IF f.polls # <<>> /\ f.polls[Len(f.polls)].raised
               THEN /\ f.wf_outcome = Raised(QueryError)
                    /\ f.sleeps = Len(f.polls) - 1
               ELSE IF f.polls # <<>> /\ AnsweredTerminal(f.polls[Len(f.polls)])
               THEN /\ f.wf_outcome =
                         Returned([none |-> FALSE,
                                   status |-> f.polls[Len(f.polls)].status])
                    /\ f.sleeps = Len(f.polls) - 1
               ELSE /\ f.wf_outcome = Returned([none |-> TRUE, why |-> "timeout"])
                    /\ f.sleeps = Len(f.polls)
                    /\ f.elapsed >= f.max_wait
                    /\ f.polls # <<>> =>
                          (Len(f.polls) - 1) * f.poll_interval < f.max_wait

\* The invocation f, where it has ended, gave the result it gives alone.
ResultAsAlone(f) ==
    /\ f.pc = "done" => TriggerResultAlone(f)
    /\ f.wpc = "done" => MonitorResultAlone(f)

\* C21: with two callers at once, for different jobs and under every
\* interleaving of their steps, each invocation gives the result it gives
\* running alone against the same responses of the backend.
C21_ConcurrentCallsAreIndependent ==
    /\ ResultAsAlone(CurrentFrame)
    /\ ResultAsAlone(suspended)

\* C21 happens: the first caller's workflow began first, the second caller's
\* run was started before its run, it polled its own run twice, and both
\* invocations ended with their own runs.
C21_Witness ==
    /\ current = 1
    /\ wpc = "done"
    /\ ReturnedStatus
    /\ Len(polls) = 2
    /\ outcome.result.run_id = 101
    /\ Finished(suspended)
    /\ IsSuccess(suspended.outcome)
    /\ suspended.outcome.result.run_id = 100
    /\ Len(runs) = 2
    /\ runs[1].job = 8
    /\ runs[2].job = 7
====
